---- MODULE Spec2Model ----
(***************************************************************************)
(* Model of src/src/layout.hpp: the non-layered tidy tree layout           *)
(* (firstwalk / separate / secondwalk) over a caller-supplied tree.        *)
(*                                                                         *)
(* Nodes are the integers 1..n, 0 is the null pointer.  The node fields    *)
(* live in the variable `node` (node id -> record of the fields of the     *)
(* TreeNode concept).  Every function of namespace details is an operator  *)
(* from the node store to the node store; the recursion of firstwalk and   *)
(* secondwalk is an explicit call stack.  `extra` is a history variable:   *)
(* the move_subtree / distribute_extra calls made so far, each with the    *)
(* right-contour node sr whose comparison caused it.                       *)
(*                                                                         *)
(* The C++ `double` fields are modelled as exact rationals <<num, den>>    *)
(* in lowest terms (den > 0): the model has no rounding.  y, w and h only  *)
(* ever hold sums of the integer inputs and stay integers.                 *)
(***************************************************************************)
EXTENDS Integers, Sequences, FiniteSets, TLC

VARIABLES node, stack, pc, extra

vars == <<node, stack, pc, extra>>

(***************************************************************************)
(* Bounds of the model and the inputs drawn in Init.                       *)
(***************************************************************************)
MaxNodes == 5

\* (w, h) of a node: a zero box, a narrow tall box and a wide flat box.
Dims == {<<0, 0>>, <<10, 40>>, <<90, 0>>}

\* unit harness of updateIYL
MaxInserts == 5
MaxLowY == 4

\* unit harness of distribute_extra / add_child_spacing
StarChildren == 4
MaxExtraCalls == 2
Dists == {7, 30}

(***************************************************************************)
(* double arithmetic, as exact rationals.                                  *)
(***************************************************************************)
Abs(a) == IF a < 0 THEN -a ELSE a

RECURSIVE GCD(_, _)
GCD(a, b) == IF b = 0 THEN a ELSE GCD(b, a % b)

Norm(num, den) ==
    LET g == GCD(Abs(num), den)
    IN  IF num = 0 THEN <<0, 1>> ELSE <<num \div g, den \div g>>

R(k) == <<k, 1>>
Add(a, b) == Norm(a[1] * b[2] + b[1] * a[2], a[2] * b[2])
Neg(a) == <<-a[1], a[2]>>
Sub(a, b) == Add(a, Neg(b))
Div(a, k) == Norm(a[1], a[2] * k)
Mul(a, k) == Norm(a[1] * k, a[2])
Lt(a, b) == a[1] * b[2] < b[1] * a[2]
Le(a, b) == a[1] * b[2] <= b[1] * a[2]
Zero == R(0)

(***************************************************************************)
(* spacing constants                                                       *)
(***************************************************************************)
V_SPACING == 20
H_SPACING == 20

(***************************************************************************)
(* The caller-supplied tree: a parent map in preorder numbering, children  *)
(* in increasing (left-to-right) order, working fields neutral.            *)
(***************************************************************************)
RECURSIVE AncOrSelf(_, _)
AncOrSelf(p, m) == IF m = 1 THEN {1} ELSE {m} \cup AncOrSelf(p, p[m])

Preorder(p, n) ==
    \A k \in 2..n : p[k] < k /\ (k > 2 => p[k] \in AncOrSelf(p, k - 1))

RECURSIVE SortedSeq(_)
SortedSeq(S) ==
    IF S = {} THEN <<>>
    ELSE LET m == CHOOSE a \in S : \A b \in S : a <= b
         IN  <<m>> \o SortedSeq(S \ {m})

NewNode(k, par, kids, d) ==
    [parent |-> par, children |-> kids, w |-> d[1], h |-> d[2],
     x |-> Zero, y |-> 0,
     prelim |-> Zero, mod |-> Zero, shift |-> Zero, change |-> Zero,
     tl |-> 0, tr |-> 0, el |-> k, er |-> k, msel |-> Zero, mser |-> Zero]

BuildTree(n, p, dims) ==
    [k \in 1..n |->
        NewNode(k, IF k = 1 THEN 0 ELSE p[k],
                SortedSeq({c \in 2..n : p[c] = k}), dims[k])]

(***************************************************************************)
(* accessors with the source's 0-based child indices                       *)
(***************************************************************************)
Size(N, t) == Len(N[t].children)
Child(N, t, i) == N[t].children[i + 1]
LastChild(N, t) == N[t].children[Size(N, t)]

(***************************************************************************)
(* struct IYL: the chain is a sequence of [lowY, index], head first.       *)
(***************************************************************************)
IYL(l, i, n) == <<[lowY |-> l, index |-> i]>> \o n

\* mutant of updateIYL: an entry of equal lowY is kept (> for >=)
RECURSIVE updateIYL_KeepEqual(_, _, _)
updateIYL_KeepEqual(miny, i, oldHead) ==
    IF oldHead # <<>> /\ miny > Head(oldHead).lowY
    THEN updateIYL_KeepEqual(miny, i, Tail(oldHead))
    ELSE IYL(miny, i, oldHead)

RECURSIVE updateIYL(_, _, _)
updateIYL(miny, i, oldHead) ==
    IF oldHead # <<>> /\ miny >= Head(oldHead).lowY
    THEN updateIYL(miny, i, Tail(oldHead))
    ELSE IYL(miny, i, oldHead)

(***************************************************************************)
(* details:: functions, node store in, node store out                      *)
(***************************************************************************)
bottom(N, t) == N[t].y + N[t].h

\* mutant of FirstwalkY: the parent's width for its height
FirstwalkY_ParentWidth(N, t) ==
    IF N[t].parent # 0
    THEN N[N[t].parent].y + N[N[t].parent].w + V_SPACING
    ELSE 0

\* mutant of FirstwalkY: no vertical spacing
FirstwalkY_NoSpacing(N, t) ==
    IF N[t].parent # 0
    THEN N[N[t].parent].y + N[N[t].parent].h
    ELSE 0

FirstwalkY(N, t) ==
    IF N[t].parent # 0
    THEN N[N[t].parent].y + N[N[t].parent].h + V_SPACING
    ELSE 0

set_extremes(N, t) ==
    IF Size(N, t) = 0
    THEN [N EXCEPT ![t].el = t, ![t].er = t, ![t].msel = Zero, ![t].mser = Zero]
    ELSE [N EXCEPT ![t].el = N[Child(N, t, 0)].el,
                   ![t].msel = N[Child(N, t, 0)].msel,
                   ![t].er = N[LastChild(N, t)].er,
                   ![t].mser = N[LastChild(N, t)].mser]

next_left_contour(N, t) ==
    IF Size(N, t) = 0 THEN N[t].tl ELSE Child(N, t, 0)

next_right_contour(N, t) ==
    IF Size(N, t) = 0 THEN N[t].tr ELSE LastChild(N, t)

set_left_thread(N, t, i, cl, modsumcl) ==
    LET li   == N[Child(N, t, 0)].el
        diff == Sub(Sub(modsumcl, N[cl].mod), N[Child(N, t, 0)].msel)
        N1   == [N EXCEPT ![li].tl = cl,
                          ![li].mod = Add(@, diff),
                          ![li].prelim = Sub(@, diff)]
    IN  [N1 EXCEPT ![Child(N, t, 0)].el = N1[Child(N, t, i)].el,
                   ![Child(N, t, 0)].msel = N1[Child(N, t, i)].msel]

\* mutant of set_right_thread: prelim is not compensated for the change of mod
set_right_thread_KeepPrelim(N, t, i, sr, modsumsr) ==
    LET ri   == N[Child(N, t, i)].er
        diff == Sub(Sub(modsumsr, N[sr].mod), N[Child(N, t, i)].mser)
        N1   == [N EXCEPT ![ri].tr = sr,
                          ![ri].mod = Add(@, diff)]
    IN  [N1 EXCEPT ![Child(N, t, i)].er = N1[Child(N, t, i - 1)].er,
                   ![Child(N, t, i)].mser = N1[Child(N, t, i - 1)].mser]

set_right_thread(N, t, i, sr, modsumsr) ==
    LET ri   == N[Child(N, t, i)].er
        diff == Sub(Sub(modsumsr, N[sr].mod), N[Child(N, t, i)].mser)
        N1   == [N EXCEPT ![ri].tr = sr,
                          ![ri].mod = Add(@, diff),
                          ![ri].prelim = Sub(@, diff)]
    IN  [N1 EXCEPT ![Child(N, t, i)].er = N1[Child(N, t, i - 1)].er,
                   ![Child(N, t, i)].mser = N1[Child(N, t, i - 1)].mser]

\* mutant of position_root: the node's own half width is not subtracted
position_root_NoOwnWidth(N, t) ==
    LET f == Child(N, t, 0)
        l == LastChild(N, t)
    IN  [N EXCEPT ![t].prelim =
            Div(Add(Add(Add(Add(N[f].prelim, N[f].mod), N[l].mod),
                        N[l].prelim), R(N[l].w)), 2)]

position_root(N, t) ==
    LET f == Child(N, t, 0)
        l == LastChild(N, t)
    IN  [N EXCEPT ![t].prelim =
            Sub(Div(Add(Add(Add(Add(N[f].prelim, N[f].mod), N[l].mod),
                            N[l].prelim), R(N[l].w)), 2),
                Div(R(N[t].w), 2))]

\* mutant of distribute_extra: the mover's change loses the whole dist
distribute_extra_FullChange(N, t, i, si, dist) ==
    IF si # i - 1
    THEN LET nr == i - si
             N1 == [N EXCEPT ![Child(N, t, si + 1)].shift = Add(@, Div(dist, nr))]
         IN  [N1 EXCEPT ![Child(N, t, i)].shift = Sub(@, Div(dist, nr)),
                        ![Child(N, t, i)].change = Sub(@, dist)]
    ELSE N

distribute_extra(N, t, i, si, dist) ==
    IF si # i - 1
    THEN LET nr == i - si
             N1 == [N EXCEPT ![Child(N, t, si + 1)].shift = Add(@, Div(dist, nr))]
         IN  [N1 EXCEPT ![Child(N, t, i)].shift = Sub(@, Div(dist, nr)),
                        ![Child(N, t, i)].change =
                            Sub(@, Sub(dist, Div(dist, nr)))]
    ELSE N

move_subtree(N, t, i, si, dist) ==
    distribute_extra(
        [N EXCEPT ![Child(N, t, i)].mod = Add(@, dist),
                  ![Child(N, t, i)].msel = Add(@, dist),
                  ![Child(N, t, i)].mser = Add(@, dist)],
        t, i, si, dist)

\* the loop of add_child_spacing from child i on, with the running d and
\* modsumdelta
RECURSIVE AddChildSpacingLoop(_, _, _, _, _)
AddChildSpacingLoop(N, t, i, d, modsumdelta) ==
    IF i < Size(N, t)
    THEN LET c   == Child(N, t, i)
             d1  == Add(d, N[c].shift)
             md1 == Add(modsumdelta, Add(d1, N[c].change))
         IN  AddChildSpacingLoop([N EXCEPT ![c].mod = Add(@, md1)],
                                 t, i + 1, d1, md1)
    ELSE N

\* mutant of add_child_spacing: change is not folded in
RECURSIVE AddChildSpacingLoop_NoChange(_, _, _, _, _)
AddChildSpacingLoop_NoChange(N, t, i, d, modsumdelta) ==
    IF i < Size(N, t)
    THEN LET c   == Child(N, t, i)
             d1  == Add(d, N[c].shift)
             md1 == Add(modsumdelta, d1)
         IN  AddChildSpacingLoop_NoChange([N EXCEPT ![c].mod = Add(@, md1)],
                                          t, i + 1, d1, md1)
    ELSE N

add_child_spacing_NoChange(N, t) ==
    AddChildSpacingLoop_NoChange(N, t, 0, Zero, Zero)

add_child_spacing(N, t) == AddChildSpacingLoop(N, t, 0, Zero, Zero)

SecondwalkX(N, t, modsum) == Add(N[t].prelim, modsum)

(***************************************************************************)
(* separate: the pieces of one iteration of its while loop                 *)
(***************************************************************************)
\* the inner while: advance the cursor (a position in ih, Len(ih)+1 = null)
RECURSIVE AdvanceCursor(_, _, _, _)
AdvanceCursor(N, ih, cursor, sr) ==
    IF cursor <= Len(ih) /\ bottom(N, sr) > ih[cursor].lowY
    THEN AdvanceCursor(N, ih, cursor + 1, sr)
    ELSE cursor

SeparateDist(N, mssr, sr, mscl, cl) ==
    Sub(Add(Add(Add(mssr, N[sr].prelim), R(N[sr].w)), R(H_SPACING)),
        Add(mscl, N[cl].prelim))

SeparateSi(ih, cursor, i) ==
    IF cursor <= Len(ih) THEN ih[cursor].index ELSE i - 1

(***************************************************************************)
(* The call stack.  A frame is one activation of firstwalk (with the       *)
(* locals of the separate call it is in, if any) or of secondwalk.         *)
(***************************************************************************)
Frame(fn, t, at, modsum) ==
    [fn |-> fn, t |-> t, at |-> at, i |-> 0, ih |-> <<>>, minY |-> 0,
     sr |-> 0, mssr |-> Zero, cl |-> 0, mscl |-> Zero, cursor |-> 1,
     modsum |-> modsum]

Top == stack[Len(stack)]
Pop == SubSeq(stack, 1, Len(stack) - 1)
SetTop(f) == [stack EXCEPT ![Len(stack)] = f]
Call(f, g) == Append(SetTop(f), g)

Running(fn, at) == stack # <<>> /\ Top.fn = fn /\ Top.at = at

\* layout(t): the tree as the caller hands it over, firstwalk(t) called
Init ==
    /\ \E n \in 1..MaxNodes :
       \E p \in {q \in [2..n -> 1..n] : Preorder(q, n)} :
       \E dims \in [1..n -> Dims] :
          node = BuildTree(n, p, dims)
    /\ stack = <<Frame("firstwalk", 1, "enter", Zero)>>
    /\ pc = "firstwalk"
    /\ extra = <<>>

(***************************************************************************)
(* firstwalk                                                               *)
(***************************************************************************)
\* lines 101-110: y, and the leaf case
FirstwalkLeaf ==
    /\ Running("firstwalk", "enter")
    /\ Size(node, Top.t) = 0
    /\ node' = set_extremes([node EXCEPT ![Top.t].y = FirstwalkY(node, Top.t)],
                            Top.t)
    /\ stack' = Pop
    /\ UNCHANGED <<pc, extra>>

\* lines 101-113: y, then the call firstwalk(t->children[0])
FirstwalkFirstChild ==
    /\ Running("firstwalk", "enter")
    /\ Size(node, Top.t) > 0
    /\ node' = [node EXCEPT ![Top.t].y = FirstwalkY(node, Top.t)]
    /\ stack' = Call([Top EXCEPT !.at = "first_done"],
                     Frame("firstwalk", Child(node, Top.t, 0), "enter", Zero))
    /\ UNCHANGED <<pc, extra>>

\* lines 114-115: the first child has returned; seed the chain
FirstwalkSeed ==
    /\ Running("firstwalk", "first_done")
    /\ stack' = SetTop([Top EXCEPT
            !.ih = updateIYL(bottom(node, Child(node, Top.t, 0)), 0, <<>>),
            !.i = 1, !.at = "loop"])
    /\ UNCHANGED <<node, pc, extra>>

\* lines 118-120: the call firstwalk(t->children[i])
FirstwalkNextChild ==
    /\ Running("firstwalk", "loop")
    /\ Top.i < Size(node, Top.t)
    /\ stack' = Call([Top EXCEPT !.at = "child_done"],
                     Frame("firstwalk", Child(node, Top.t, Top.i), "enter", Zero))
    /\ UNCHANGED <<node, pc, extra>>

\* lines 121-122 and 152-158: minY, and the entry of separate(t, i, ih)
SeparateEnter ==
    /\ Running("firstwalk", "child_done")
    /\ stack' = SetTop([Top EXCEPT
            !.minY = bottom(node, Child(node, Top.t, Top.i)),
            !.sr = Child(node, Top.t, Top.i - 1),
            !.mssr = node[Child(node, Top.t, Top.i - 1)].mod,
            !.cl = Child(node, Top.t, Top.i),
            !.mscl = node[Child(node, Top.t, Top.i)].mod,
            !.cursor = 1,
            !.at = "separate"])
    /\ UNCHANGED <<node, pc, extra>>

\* lines 160-190: one iteration of the while loop of separate
SeparateIter ==
    /\ Running("firstwalk", "separate")
    /\ Top.sr # 0 /\ Top.cl # 0
    /\ LET t      == Top.t
           i      == Top.i
           sr     == Top.sr
           cl     == Top.cl
           cursor == AdvanceCursor(node, Top.ih, Top.cursor, sr)
           dist   == SeparateDist(node, Top.mssr, sr, Top.mscl, cl)
           moved  == Lt(Zero, dist)
           si     == SeparateSi(Top.ih, cursor, i)
           mscl1  == IF moved THEN Add(Top.mscl, dist) ELSE Top.mscl
           N1     == IF moved THEN move_subtree(node, t, i, si, dist) ELSE node
           sy     == bottom(N1, sr)
           cy     == bottom(N1, cl)
           sr1    == IF sy <= cy THEN next_right_contour(N1, sr) ELSE sr
           mssr1  == IF sy <= cy /\ sr1 # 0
                     THEN Add(Top.mssr, N1[sr1].mod) ELSE Top.mssr
           cl1    == IF sy >= cy THEN next_left_contour(N1, cl) ELSE cl
           mscl2  == IF sy >= cy /\ cl1 # 0
                     THEN Add(mscl1, N1[cl1].mod) ELSE mscl1
       IN  /\ node' = N1
           /\ stack' = SetTop([Top EXCEPT !.cursor = cursor, !.sr = sr1,
                                          !.mssr = mssr1, !.cl = cl1,
                                          !.mscl = mscl2])
           /\ extra' = IF moved
                       THEN Append(extra, [t |-> t, i |-> i, si |-> si,
                                           sr |-> sr, dist |-> dist])
                       ELSE extra
    /\ UNCHANGED pc

\* lines 191-197 and 123: the threads, then the chain update and ++i
SeparateExit ==
    /\ Running("firstwalk", "separate")
    /\ Top.sr = 0 \/ Top.cl = 0
    /\ node' = IF Top.sr = 0 /\ Top.cl # 0
               THEN set_left_thread(node, Top.t, Top.i, Top.cl, Top.mscl)
               ELSE IF Top.sr # 0 /\ Top.cl = 0
               THEN set_right_thread(node, Top.t, Top.i, Top.sr, Top.mssr)
               ELSE node
    /\ stack' = SetTop([Top EXCEPT
            !.ih = updateIYL(Top.minY, Top.i, Top.ih),
            !.i = Top.i + 1, !.at = "loop"])
    /\ UNCHANGED <<pc, extra>>

\* lines 126-128: all children placed
FirstwalkFinish ==
    /\ Running("firstwalk", "loop")
    /\ Top.i >= Size(node, Top.t)
    /\ node' = set_extremes(position_root(node, Top.t), Top.t)
    /\ stack' = Pop
    /\ UNCHANGED <<pc, extra>>

(***************************************************************************)
(* layout and secondwalk                                                   *)
(***************************************************************************)
\* line 307: firstwalk(t) has returned; secondwalk(t, 0) is called
LayoutSecondwalk ==
    /\ pc = "firstwalk" /\ stack = <<>>
    /\ stack' = <<Frame("secondwalk", 1, "enter", Zero)>>
    /\ pc' = "secondwalk"
    /\ UNCHANGED <<node, extra>>

\* lines 279-282
SecondwalkVisit ==
    /\ Running("secondwalk", "enter")
    /\ LET t      == Top.t
           modsum == Add(Top.modsum, node[t].mod)
       IN  /\ node' = add_child_spacing(
                        [node EXCEPT ![t].x = SecondwalkX(node, t, modsum)], t)
           /\ stack' = SetTop([Top EXCEPT !.modsum = modsum, !.at = "loop"])
    /\ UNCHANGED <<pc, extra>>

\* lines 283-284: the call secondwalk(c, modsum)
SecondwalkChild ==
    /\ Running("secondwalk", "loop")
    /\ Top.i < Size(node, Top.t)
    /\ stack' = Call([Top EXCEPT !.i = Top.i + 1],
                     Frame("secondwalk", Child(node, Top.t, Top.i), "enter",
                           Top.modsum))
    /\ UNCHANGED <<node, pc, extra>>

SecondwalkReturn ==
    /\ Running("secondwalk", "loop")
    /\ Top.i >= Size(node, Top.t)
    /\ stack' = Pop
    /\ UNCHANGED <<node, pc, extra>>

\* line 308: layout returns
LayoutReturn ==
    /\ pc = "secondwalk" /\ stack = <<>>
    /\ pc' = "done"
    /\ UNCHANGED <<node, stack, extra>>

Next ==
    \/ FirstwalkLeaf
    \/ FirstwalkFirstChild
    \/ FirstwalkSeed
    \/ FirstwalkNextChild
    \/ SeparateEnter
    \/ SeparateIter
    \/ SeparateExit
    \/ FirstwalkFinish
    \/ LayoutSecondwalk
    \/ SecondwalkVisit
    \/ SecondwalkChild
    \/ SecondwalkReturn
    \/ LayoutReturn

Spec == Init /\ [][Next]_vars

(***************************************************************************)
(* Unit harness of the skip list: any sequence of updateIYL calls on the   *)
(* chain of one firstwalk frame, from the empty chain, with the indices    *)
(* 0, 1, 2, ... firstwalk passes.                                          *)
(***************************************************************************)
InitIYL ==
    /\ node = BuildTree(1, <<>>, [k \in 1..1 |-> <<0, 0>>])
    /\ stack = <<Frame("firstwalk", 1, "iyl", Zero)>>
    /\ pc = "iyl"
    /\ extra = <<>>

UpdateIYLCall ==
    /\ pc = "iyl"
    /\ Top.i < MaxInserts
    /\ \E miny \in 0..MaxLowY :
          stack' = SetTop([Top EXCEPT !.ih = updateIYL(miny, Top.i, Top.ih),
                                      !.i = Top.i + 1])
    /\ UNCHANGED <<node, pc, extra>>

NextIYL == UpdateIYLCall

SpecIYL == InitIYL /\ [][NextIYL]_vars

(***************************************************************************)
(* Unit harness of distribute_extra / add_child_spacing: one parent (node  *)
(* 1) with StarChildren children, shift and change all 0; any sequence of  *)
(* distribute_extra(t, i, si, dist) calls with 0 <= si < i, then one       *)
(* add_child_spacing(t).  `extra` logs the calls.                          *)
(***************************************************************************)
Star ==
    BuildTree(StarChildren + 1, [k \in 2..(StarChildren + 1) |-> 1],
              [k \in 1..(StarChildren + 1) |-> <<0, 0>>])

InitExtra ==
    /\ node = Star
    /\ stack = <<>>
    /\ pc = "extra"
    /\ extra = <<>>

DistributeExtraCall ==
    /\ pc = "extra"
    /\ Len(extra) < MaxExtraCalls
    /\ \E i \in 1..(StarChildren - 1) : \E si \in 0..(i - 1) : \E dist \in Dists :
          /\ node' = distribute_extra(node, 1, i, si, R(dist))
          /\ extra' = Append(extra, [t |-> 1, i |-> i, si |-> si, sr |-> 0,
                                     dist |-> R(dist)])
    /\ UNCHANGED <<stack, pc>>

AddChildSpacingCall ==
    /\ pc = "extra"
    /\ node' = add_child_spacing(node, 1)
    /\ pc' = "folded"
    /\ UNCHANGED <<stack, extra>>

NextExtra == DistributeExtraCall \/ AddChildSpacingCall

SpecExtra == InitExtra /\ [][NextExtra]_vars

(***************************************************************************)
(* Vocabulary of the properties                                            *)
(***************************************************************************)
Nodes == DOMAIN node
Done == pc = "done"

RECURSIVE Ancestors(_)
Ancestors(k) == IF k = 0 THEN {} ELSE {k} \cup Ancestors(node[k].parent)

\* the nodes of the subtree rooted at r
Subtree(r) == {k \in Nodes : r \in Ancestors(k)}

Kids(t) == {node[t].children[j] : j \in 1..Size(node, t)}
IsLeaf(t) == Size(node, t) = 0

\* the vertical extents [y, y+h] of u and v share a y
SharesY(u, v) ==
    /\ node[u].y <= node[v].y + node[v].h
    /\ node[v].y <= node[u].y + node[u].h

MaxBottom(S) ==
    CHOOSE m \in {bottom(node, k) : k \in S} :
        \A k \in S : bottom(node, k) <= m

RECURSIVE SameShape(_, _)
SameShape(a, b) ==
    /\ Size(node, a) = Size(node, b)
    /\ \A j \in 1..Size(node, a) :
          SameShape(node[a].children[j], node[b].children[j])

\* nodes with exactly two children of equal width and equal subtree shape
TwinParents ==
    {p \in Nodes : /\ Size(node, p) = 2
                   /\ node[Child(node, p, 0)].w = node[Child(node, p, 1)].w
                   /\ SameShape(Child(node, p, 0), Child(node, p, 1))}

\* the chains of the firstwalk activations on the stack
Chains == {stack[j].ih : j \in {k \in 1..Len(stack) : stack[k].fn = "firstwalk"}}

(***************************************************************************)
(* C1: after layout, for every parent and every pair of its children a     *)
(* left of b, every u in the subtree of a and v in the subtree of b whose  *)
(* vertical extents share a y satisfy u.x + u.w + H_SPACING <= v.x.        *)
(***************************************************************************)
C1_SiblingSubtreesSeparated ==
    Done =>
        \A p \in Nodes : \A a, b \in 0..(Size(node, p) - 1) :
            a < b =>
                \A u \in Subtree(Child(node, p, a)) :
                \A v \in Subtree(Child(node, p, b)) :
                    SharesY(u, v) =>
                        Le(Add(Add(node[u].x, R(node[u].w)), R(H_SPACING)),
                           node[v].x)

(***************************************************************************)
(* C5: every entry (lowY, index) of the chain of a firstwalk(t) in         *)
(* progress holds the largest y + h over the whole subtree of              *)
(* t.children[index].                                                      *)
(***************************************************************************)
C5_LowYIsSubtreeBottom ==
    pc = "firstwalk" =>
        \A j \in 1..Len(stack) : \A e \in 1..Len(stack[j].ih) :
            stack[j].ih[e].lowY =
                MaxBottom(Subtree(Child(node, stack[j].t, stack[j].ih[e].index)))

(***************************************************************************)
(* C6: whenever separate(t, i, ih) calls move_subtree(t, i, si, dist), the *)
(* right-contour node sr whose comparison gave dist > 0 is                 *)
(* t.children[si] or one of its descendants, with 0 <= si <= i-1.          *)
(***************************************************************************)
C6_SiOwnsConflictNode ==
    pc \in {"firstwalk", "secondwalk", "done"} =>
        \A e \in 1..Len(extra) :
            /\ 0 <= extra[e].si /\ extra[e].si <= extra[e].i - 1
            /\ extra[e].sr \in Subtree(Child(node, extra[e].t, extra[e].si))

(***************************************************************************)
(* C2: after layout the root has y = 0 and every other node n has          *)
(* n.y = n.parent.y + n.parent.h + V_SPACING.                              *)
(***************************************************************************)
C2_RowSpacing ==
    Done =>
        \A n \in Nodes :
            node[n].y = IF node[n].parent = 0 THEN 0
                        ELSE node[node[n].parent].y + node[node[n].parent].h
                             + V_SPACING

\* a finished layout with a grandchild below a parent of height 40 whose
\* width differs from its height
C2_Witness ==
    /\ Done
    /\ \E n \in Nodes :
          /\ node[n].parent # 0
          /\ node[node[n].parent].parent # 0
          /\ node[node[n].parent].h = 40
          /\ node[n].y = 100

(***************************************************************************)
(* C3, as stated: after layout every node p with exactly two children of   *)
(* equal width and equal subtree shape has p.x = (c0.x + c1.x) / 2,        *)
(* whatever the width of p.                                                *)
(***************************************************************************)
C3_ParentXIsMidpointOfChildX ==
    Done =>
        \A p \in TwinParents :
            node[p].x = Div(Add(node[Child(node, p, 0)].x,
                                node[Child(node, p, 1)].x), 2)

(***************************************************************************)
(* C3, amended: for such a p the centre of p is the midpoint of the        *)
(* centres of the two children, p.x + p.w/2 = (c0.x + c1.x + w)/2 with w   *)
(* the children's width; so p.x is the midpoint of c0.x and c1.x exactly   *)
(* when p.w equals that width.                                             *)
(***************************************************************************)
C3_ParentCentreIsMidpointOfChildCentres ==
    Done =>
        \A p \in TwinParents :
            LET c0 == Child(node, p, 0)
                c1 == Child(node, p, 1)
                mid == Div(Add(node[c0].x, node[c1].x), 2)
            IN  /\ Add(node[p].x, Div(R(node[p].w), 2)) =
                       Add(mid, Div(R(node[c1].w), 2))
                /\ (node[p].x = mid) <=> (node[p].w = node[c1].w)

\* a finished layout with a wide parent over two equal narrow subtrees that
\* are not leaves
C3_Witness ==
    /\ Done
    /\ \E p \in TwinParents :
          /\ node[p].w = 90
          /\ node[Child(node, p, 0)].w = 10
          /\ ~IsLeaf(Child(node, p, 0))

(***************************************************************************)
(* C4: after layout, for every parent whose children are all leaves, each  *)
(* child k >= 1 has x = children[k-1].x + children[k-1].w + H_SPACING and  *)
(* every child has y = parent.y + parent.h + V_SPACING.                    *)
(***************************************************************************)
C4_LeafSiblingsExactSpacing ==
    Done =>
        \A p \in Nodes :
            (\A c \in Kids(p) : IsLeaf(c)) =>
                /\ \A k \in 1..(Size(node, p) - 1) :
                      node[Child(node, p, k)].x =
                          Add(Add(node[Child(node, p, k - 1)].x,
                                  R(node[Child(node, p, k - 1)].w)),
                              R(H_SPACING))
                /\ \A c \in Kids(p) :
                      node[c].y = node[p].y + node[p].h + V_SPACING

\* a finished layout with three leaf siblings of different widths and
\* heights, the shorter one threaded to the taller one on its left
C4_Witness ==
    /\ Done
    /\ \E p \in Nodes :
          /\ Size(node, p) = 3
          /\ \A c \in Kids(p) : IsLeaf(c)
          /\ node[Child(node, p, 0)].h = 40
          /\ node[Child(node, p, 1)].w = 90
          /\ node[Child(node, p, 1)].tr = Child(node, p, 0)
          /\ node[Child(node, p, 2)].w = 0

(***************************************************************************)
(* C7, as stated: after any sequence of updateIYL insertions from the      *)
(* empty chain, the lowY values strictly decrease from the head along nxt. *)
(***************************************************************************)
C7_LowYStrictlyDecreasing ==
    \A ih \in Chains : \A j \in 1..(Len(ih) - 1) : ih[j].lowY > ih[j + 1].lowY

\* the entries of ih an insertion of lowY value miny drops: the longest
\* prefix whose lowY values are all <= miny
Dropped(ih, miny) ==
    CHOOSE k \in 0..Len(ih) :
        /\ \A j \in 1..k : ih[j].lowY <= miny
        /\ k < Len(ih) => ih[k + 1].lowY > miny

(***************************************************************************)
(* C7, amended: after any sequence of updateIYL insertions from the empty  *)
(* chain, the lowY values strictly increase from the head along nxt; an    *)
(* insertion drops every head entry whose lowY is <= the new value, keeps  *)
(* the rest as they were, and prepends the new entry.                      *)
(***************************************************************************)
C7_LowYStrictlyIncreasing ==
    /\ [](\A ih \in Chains :
            \A j \in 1..(Len(ih) - 1) : ih[j].lowY < ih[j + 1].lowY)
    /\ [][pc = "iyl" =>
            LET old == Top.ih
                new == stack'[Len(stack')].ih
            IN  /\ Head(new).index = Top.i
                /\ Tail(new) = SubSeq(old, Dropped(old, Head(new).lowY) + 1,
                                      Len(old))]_vars

\* a chain of three entries, reached by an insertion that dropped two
\* entries, one of them of equal lowY
C7_Witness ==
    /\ pc = "iyl"
    /\ Len(Top.ih) = 3
    /\ Top.i = 5
    /\ Top.ih[1].index = 4
    /\ Top.ih[2].index = 1
    /\ Top.ih[1].lowY = 2

(***************************************************************************)
(* C8: after layout every node t with children, first child f and last     *)
(* child l, has t.x + t.w/2 = (f.x + l.x + l.w) / 2.                       *)
(***************************************************************************)
C8_ParentCentred ==
    Done =>
        \A t \in Nodes :
            ~IsLeaf(t) =>
                Add(node[t].x, Div(R(node[t].w), 2)) =
                    Div(Add(Add(node[Child(node, t, 0)].x,
                                node[LastChild(node, t)].x),
                            R(node[LastChild(node, t)].w)), 2)

\* a finished layout in which a parent's last child was moved with extra
\* distributed over intermediate siblings, and some parent's last child is a
\* leaf whose prelim/mod a thread splice rewrote
C8_Witness ==
    /\ Done
    /\ \E t \in Nodes :
          /\ Size(node, t) >= 3
          /\ node[LastChild(node, t)].change # Zero
    /\ \E a \in Nodes :
          /\ ~IsLeaf(a)
          /\ IsLeaf(LastChild(node, a))
          /\ node[LastChild(node, a)].tr # 0
          /\ node[LastChild(node, a)].prelim # Zero

\* what the calls logged in `calls` owe to the mod of child k
RECURSIVE ExtraShare(_, _)
ExtraShare(calls, k) ==
    IF calls = <<>> THEN Zero
    ELSE LET c == Head(calls)
         IN  Add(IF c.si < k /\ k < c.i
                 THEN Div(Mul(c.dist, k - c.si), c.i - c.si)
                 ELSE Zero,
                 ExtraShare(Tail(calls), k))

(***************************************************************************)
(* C9: from shift = change = 0, after any sequence of                      *)
(* distribute_extra(t, i, si, dist) calls (0 <= si < i) and one            *)
(* add_child_spacing(t), the mod of every child k has grown by the sum,    *)
(* over the calls with si < k < i, of (k - si) * dist / (i - si), and by   *)
(* nothing for the other calls; calls with si = i-1 change no field.       *)
(***************************************************************************)
C9_ProportionalNudge ==
    /\ pc = "folded" =>
          \A k \in 0..(StarChildren - 1) :
              node[Child(node, 1, k)].mod = ExtraShare(extra, k)
    /\ (pc = "extra" /\ \A e \in 1..Len(extra) : extra[e].si = extra[e].i - 1)
          => node = Star

\* two overlapping calls with intermediate children, folded
C9_Witness ==
    /\ pc = "folded"
    /\ Len(extra) = 2
    /\ extra[1].i = 3 /\ extra[1].si = 0 /\ extra[1].dist = R(7)
    /\ extra[2].i = 2 /\ extra[2].si = 0
    /\ node[Child(node, 1, 1)].mod = Add(Div(R(7), 3), R(15))

(***************************************************************************)
(* The variant of layout.  Rank bounds the steps layout still has to take: *)
(* the iterations one call of separate may still take are bounded by the   *)
(* number of nodes with a bottom greater than that of sr, plus those with  *)
(* a bottom greater than that of cl.                                       *)
(***************************************************************************)
Above(k) ==
    IF k = 0 THEN 0
    ELSE 1 + Cardinality({j \in Nodes : bottom(node, j) > bottom(node, k)})

SeparateBound == 2 * Cardinality(Nodes)

RECURSIVE FirstwalkCost(_)
\* the steps of child i of t: the call, SeparateEnter, the loop, SeparateExit
PerChild(t, i) == 1 + FirstwalkCost(Child(node, t, i)) + 1 + SeparateBound + 1

RECURSIVE RestCost(_, _)
RestCost(t, i) ==
    IF i < Size(node, t) THEN PerChild(t, i) + RestCost(t, i + 1) ELSE 1

FirstwalkCost(t) ==
    IF IsLeaf(t) THEN 1
    ELSE 1 + FirstwalkCost(Child(node, t, 0)) + 1 + RestCost(t, 1)

RECURSIVE SecondwalkCost(_)
RECURSIVE SecondRest(_, _)
SecondRest(t, i) ==
    IF i < Size(node, t)
    THEN 1 + SecondwalkCost(Child(node, t, i)) + SecondRest(t, i + 1)
    ELSE 1

SecondwalkCost(t) == 1 + SecondRest(t, 0)

\* what the activation f has left to do, the activations above it excluded
FrameRank(f) ==
    IF f.fn = "firstwalk"
    THEN CASE f.at = "enter"      -> FirstwalkCost(f.t)
           [] f.at = "first_done" -> 1 + RestCost(f.t, 1)
           [] f.at = "loop"       -> RestCost(f.t, f.i)
           [] f.at = "child_done" -> 1 + SeparateBound + 1 + RestCost(f.t, f.i + 1)
           [] f.at = "separate"   -> Above(f.sr) + Above(f.cl) + 1
                                     + RestCost(f.t, f.i + 1)
    ELSE CASE f.at = "enter" -> SecondwalkCost(f.t)
           [] f.at = "loop"  -> SecondRest(f.t, f.i)

RECURSIVE StackRank(_)
StackRank(st) ==
    IF st = <<>> THEN 0 ELSE FrameRank(Head(st)) + StackRank(Tail(st))

Rank ==
    CASE pc = "firstwalk"  -> StackRank(stack) + 1 + SecondwalkCost(1) + 1
      [] pc = "secondwalk" -> StackRank(stack) + 1
      [] pc = "done"       -> 0

C10_SeparateAdvances ==
    (Running("firstwalk", "separate") /\ Top.sr # 0 /\ Top.cl # 0) =>
        LET sr1 == stack'[Len(stack')].sr
            cl1 == stack'[Len(stack')].cl
        IN  /\ sr1 # Top.sr \/ cl1 # Top.cl
            /\ (sr1 # Top.sr /\ sr1 # 0) =>
                   bottom(node, sr1) > bottom(node, Top.sr)
            /\ (cl1 # Top.cl /\ cl1 # 0) =>
                   bottom(node, cl1) > bottom(node, Top.cl)

\* one of the steps of layout can be taken: the guards of the actions of
\* Next, which split every position into its two cases
CanStep ==
    \/ pc \in {"firstwalk", "secondwalk"} /\ stack = <<>>
    \/ /\ pc = "firstwalk" /\ stack # <<>> /\ Top.fn = "firstwalk"
       /\ Top.at \in {"enter", "first_done", "loop", "child_done", "separate"}
    \/ /\ pc = "secondwalk" /\ stack # <<>> /\ Top.fn = "secondwalk"
       /\ Top.at \in {"enter", "loop"}

(***************************************************************************)
(* C10: layout terminates; every iteration of the loop of separate         *)
(* replaces sr and/or cl, and a node that replaces sr (cl) and is not null *)
(* has a strictly greater bottom y + h than the node it replaces.          *)
(* Termination is stated by the variant: Rank is a natural number, every   *)
(* step of layout strictly decreases it, and layout can take a step        *)
(* whenever it has not returned.                                           *)
(***************************************************************************)
C10_Terminates ==
    /\ [](Rank \in Nat /\ (Done \/ CanStep))
    /\ [][C10_SeparateAdvances /\ Rank' < Rank]_vars

\* separate walking the right contour through a thread (sr outside the
\* subtree of children[i-1]), with both contours still alive
C10_Witness ==
    /\ Running("firstwalk", "separate")
    /\ Top.sr # 0 /\ Top.cl # 0
    /\ Top.sr \notin Subtree(Child(node, Top.t, Top.i - 1))

====
